---------------------------- MODULE Spec2Model ----------------------------
(***************************************************************************)
(* Model of the PDF dictation reader component (src/src/App.tsx).          *)
(*                                                                         *)
(* A JavaScript string is a sequence of characters.  A character is a      *)
(* one-element TLA+ string; characters outside ASCII are written by name:  *)
(*   "SUP0" .. "SUP9"  superscript digits U+2070, U+00B9, U+00B2, U+00B3,  *)
(*                     U+2074 .. U+2079                                    *)
(*   "SUPMINUS"        superscript minus U+207B                            *)
(*   "MINUS" "ENDASH" "EMDASH"   U+2212, U+2013, U+2014                    *)
(*   "HALF" "QUARTER"  vulgar fractions U+00BD, U+00BC                     *)
(*   "BULLET" "MIDDOT" "TIMES" "SQRT" "LE" "GE" "SIGMA" "INTEGRAL"         *)
(* Baseline Y coordinates are counted in half units, so that the           *)
(* tolerance 3.5 of the line grouping is the integer 7.                    *)
(***************************************************************************)
EXTENDS Integers, Sequences, FiniteSets, TLC

(***************************************************************************)
(* Character classes of the regular expressions                            *)
(***************************************************************************)
LowerSeq == <<"a","b","c","d","e","f","g","h","i","j","k","l","m",
             "n","o","p","q","r","s","t","u","v","w","x","y","z">>
UpperSeq == <<"A","B","C","D","E","F","G","H","I","J","K","L","M",
             "N","O","P","Q","R","S","T","U","V","W","X","Y","Z">>
Lower == {LowerSeq[k] : k \in 1..26}
Upper == {UpperSeq[k] : k \in 1..26}
\* the character folded as the i flag of a regular expression folds it: the
\* ASCII letters and, of the characters of the patterns, the Greek sigma
toLowerCase(c) ==
  IF c \in Upper THEN LowerSeq[CHOOSE k \in 1..26 : UpperSeq[k] = c]
  ELSE IF c \in {"SIGMA", "FINALSIGMA"} THEN "sigma"
  ELSE c
Letters == Lower \cup Upper
Digits == {"0","1","2","3","4","5","6","7","8","9"}
WordChars == Letters \cup Digits \cup {"_"}
Spaces == {" ", "\t", "\n"}

\* s[i], or the empty string outside the string
At(s, i) == IF i >= 1 /\ i <= Len(s) THEN s[i] ELSE ""

\* s.substring(i-1, i-1+n)
Sub(s, i, n) == SubSeq(s, i, i + n - 1)

\* length of the longest run of characters of class C that starts at s[i]
RunLen(s, i, C) ==
  LET RECURSIVE run(_)
      run(j) == IF j <= Len(s) /\ s[j] \in C THEN 1 + run(j + 1) ELSE 0
  IN run(i)

\* length of the longest run of characters outside class C that starts at s[i]
RunLenNot(s, i, C) ==
  LET RECURSIVE run(_)
      run(j) == IF j <= Len(s) /\ s[j] \notin C THEN 1 + run(j + 1) ELSE 0
  IN run(i)

\* length of the longest run of characters of class C that ends at s[i]
RunLenBack(s, i, C) ==
  LET RECURSIVE run(_)
      run(j) == IF j >= 1 /\ s[j] \in C THEN 1 + run(j - 1) ELSE 0
  IN run(i)

\* \b between s[i-1] and s[i]
WordBoundary(s, i) == (At(s, i - 1) \in WordChars) # (At(s, i) \in WordChars)

\* String.prototype.replace with a global regular expression: M(s, i) is the
\* length of the match that starts at s[i] (0: none; no pattern of the
\* program matches the empty string) and R(s, i) its replacement
ReplaceAll(s, M(_, _), R(_, _)) ==
  LET RECURSIVE go(_)
      go(i) == IF i > Len(s) THEN <<>>
               ELSE LET m == M(s, i)
                    IN IF m > 0 THEN R(s, i) \o go(i + m)
                       ELSE <<s[i]>> \o go(i + 1)
  IN go(1)

\* String.prototype.trim
trim(s) ==
  LET a == RunLen(s, 1, Spaces)
      b == RunLenBack(s, Len(s), Spaces)
  IN IF a = Len(s) THEN <<>> ELSE SubSeq(s, a + 1, Len(s) - b)

\* Array.prototype.join
RECURSIVE join(_, _)
join(parts, sep) ==
  IF parts = <<>> THEN <<>>
  ELSE IF Len(parts) = 1 THEN parts[1]
  ELSE parts[1] \o sep \o join(Tail(parts), sep)

\* s.replace(/\s{2,}/g, " ")
M_Spaces2(s, i) == IF RunLen(s, i, Spaces) >= 2 THEN RunLen(s, i, Spaces) ELSE 0
R_OneSpace(s, i) == <<" ">>
collapseSpaces2(s) == ReplaceAll(s, M_Spaces2, R_OneSpace)

\* s.replace(/\s+/g, " ")
M_Spaces1(s, i) == RunLen(s, i, Spaces)
collapseSpaces1(s) == ReplaceAll(s, M_Spaces1, R_OneSpace)

(***************************************************************************)
(* Helpers for extraction                                                  *)
(***************************************************************************)
supers == [d \in Digits |->
             CASE d = "0" -> "SUP0" [] d = "1" -> "SUP1" [] d = "2" -> "SUP2"
               [] d = "3" -> "SUP3" [] d = "4" -> "SUP4" [] d = "5" -> "SUP5"
               [] d = "6" -> "SUP6" [] d = "7" -> "SUP7" [] d = "8" -> "SUP8"
               [] d = "9" -> "SUP9"]
superscriptChar(n) == IF n \in DOMAIN supers THEN supers[n] ELSE n

(***************************************************************************)
(* fixInlineMathArtifacts: the repairs of one line, in the order of the    *)
(* source.  Each step is one replace call of the source.                   *)
(***************************************************************************)
\* 0) /[MINUS ENDASH EMDASH]/g -> "-"
M_Dash(s, i) == IF s[i] \in {"MINUS", "ENDASH", "EMDASH"} THEN 1 ELSE 0
R_Dash(s, i) == <<"-">>
fixDashes(s) == ReplaceAll(s, M_Dash, R_Dash)

\* 1) vulgar fractions -> "a/b"
vulgarMap ==
  [c \in {"QUARTER", "HALF", "THREEQUARTERS", "THIRD", "TWOTHIRDS", "FIFTH",
          "TWOFIFTHS", "THREEFIFTHS", "FOURFIFTHS", "SIXTH", "FIVESIXTHS",
          "EIGHTH", "THREEEIGHTHS", "FIVEEIGHTHS", "SEVENEIGHTHS"} |->
     CASE c = "QUARTER" -> <<"1","/","4">> [] c = "HALF" -> <<"1","/","2">>
       [] c = "THREEQUARTERS" -> <<"3","/","4">>
       [] c = "THIRD" -> <<"1","/","3">> [] c = "TWOTHIRDS" -> <<"2","/","3">>
       [] c = "FIFTH" -> <<"1","/","5">> [] c = "TWOFIFTHS" -> <<"2","/","5">>
       [] c = "THREEFIFTHS" -> <<"3","/","5">>
       [] c = "FOURFIFTHS" -> <<"4","/","5">>
       [] c = "SIXTH" -> <<"1","/","6">> [] c = "FIVESIXTHS" -> <<"5","/","6">>
       [] c = "EIGHTH" -> <<"1","/","8">>
       [] c = "THREEEIGHTHS" -> <<"3","/","8">>
       [] c = "FIVEEIGHTHS" -> <<"5","/","8">>
       [] c = "SEVENEIGHTHS" -> <<"7","/","8">>]
M_Vulgar(s, i) == IF s[i] \in DOMAIN vulgarMap THEN 1 ELSE 0
R_Vulgar(s, i) == vulgarMap[s[i]]
fixVulgar(s) == ReplaceAll(s, M_Vulgar, R_Vulgar)

\* 2) /(\d+)\s*\/\s*(\d+)/g -> "$1/$2"
M_FracSlash(s, i) ==
  LET d1 == RunLen(s, i, Digits)
      w1 == RunLen(s, i + d1, Spaces)
      w2 == RunLen(s, i + d1 + w1 + 1, Spaces)
      d2 == RunLen(s, i + d1 + w1 + 1 + w2, Digits)
  IN IF d1 >= 1 /\ At(s, i + d1 + w1) = "/" /\ d2 >= 1
     THEN d1 + w1 + 1 + w2 + d2 ELSE 0
R_FracSlash(s, i) ==
  LET d1 == RunLen(s, i, Digits)
      w1 == RunLen(s, i + d1, Spaces)
      w2 == RunLen(s, i + d1 + w1 + 1, Spaces)
      d2 == RunLen(s, i + d1 + w1 + 1 + w2, Digits)
  IN Sub(s, i, d1) \o <<"/">> \o Sub(s, i + d1 + w1 + 1 + w2, d2)
fixFracSlash(s) == ReplaceAll(s, M_FracSlash, R_FracSlash)

\*    /(\d+)_+(\d+)/g -> "$1/$2"
M_FracUnder(s, i) ==
  LET d1 == RunLen(s, i, Digits)
      u == RunLen(s, i + d1, {"_"})
      d2 == RunLen(s, i + d1 + u, Digits)
  IN IF d1 >= 1 /\ u >= 1 /\ d2 >= 1 THEN d1 + u + d2 ELSE 0
R_FracUnder(s, i) ==
  LET d1 == RunLen(s, i, Digits)
      u == RunLen(s, i + d1, {"_"})
      d2 == RunLen(s, i + d1 + u, Digits)
  IN Sub(s, i, d1) \o <<"/">> \o Sub(s, i + d1 + u, d2)
fixFracUnder(s) == ReplaceAll(s, M_FracUnder, R_FracUnder)

\*    /(\d+)(?:\s*_+\s*)+(\d+)/g -> "$1/$2": the digits are separated by a
\*    run of spaces and underscores that holds at least one underscore
M_FracSpacedUnder(s, i) ==
  LET d1 == RunLen(s, i, Digits)
      g == RunLen(s, i + d1, Spaces \cup {"_"})
      d2 == RunLen(s, i + d1 + g, Digits)
  IN IF d1 >= 1 /\ d2 >= 1 /\ \E k \in i + d1 .. i + d1 + g - 1 : s[k] = "_"
     THEN d1 + g + d2 ELSE 0
R_FracSpacedUnder(s, i) ==
  LET d1 == RunLen(s, i, Digits)
      g == RunLen(s, i + d1, Spaces \cup {"_"})
      d2 == RunLen(s, i + d1 + g, Digits)
  IN Sub(s, i, d1) \o <<"/">> \o Sub(s, i + d1 + g, d2)
fixFracSpacedUnder(s) == ReplaceAll(s, M_FracSpacedUnder, R_FracSpacedUnder)

\* 3) /([a-zA-Z])\s*\^\s*([0-9])\b/g -> letter and superscript digit
M_CaretPower(s, i) ==
  LET w1 == RunLen(s, i + 1, Spaces)
      w2 == RunLen(s, i + 1 + w1 + 1, Spaces)
      p == i + 1 + w1 + 1 + w2
  IN IF s[i] \in Letters /\ At(s, i + 1 + w1) = "^" /\ At(s, p) \in Digits
        /\ WordBoundary(s, p + 1)
     THEN p + 1 - i ELSE 0
R_CaretPower(s, i) ==
  LET w1 == RunLen(s, i + 1, Spaces)
      w2 == RunLen(s, i + 1 + w1 + 1, Spaces)
      p == i + 1 + w1 + 1 + w2
  IN <<s[i], supers[s[p]]>>
fixCaretPower(s) == ReplaceAll(s, M_CaretPower, R_CaretPower)

\* 4) /(\([^)]+\))\s*([0-9])\b/g -> group and superscript digit
M_GroupPower(s, i) ==
  LET n == RunLenNot(s, i + 1, {")"})
      w == RunLen(s, i + n + 2, Spaces)
      p == i + n + 2 + w
  IN IF s[i] = "(" /\ n >= 1 /\ At(s, i + n + 1) = ")" /\ At(s, p) \in Digits
        /\ WordBoundary(s, p + 1)
     THEN p + 1 - i ELSE 0
R_GroupPower(s, i) ==
  LET n == RunLenNot(s, i + 1, {")"})
      w == RunLen(s, i + n + 2, Spaces)
      p == i + n + 2 + w
  IN Sub(s, i, n + 2) \o <<supers[s[p]]>>
fixGroupPower(s) == ReplaceAll(s, M_GroupPower, R_GroupPower)

\* 5) /\b(sin|cos|tan)\s*SUP1\s*\(/gi -> fn SUPMINUS SUP1 (
M_InverseTrig(s, i) ==
  LET fn == <<toLowerCase(At(s, i)), toLowerCase(At(s, i + 1)),
              toLowerCase(At(s, i + 2))>>
      w1 == RunLen(s, i + 3, Spaces)
      w2 == RunLen(s, i + 3 + w1 + 1, Spaces)
  IN IF WordBoundary(s, i)
        /\ fn \in {<<"s","i","n">>, <<"c","o","s">>, <<"t","a","n">>}
        /\ At(s, i + 3 + w1) = "SUP1" /\ At(s, i + 3 + w1 + 1 + w2) = "("
     THEN 3 + w1 + 1 + w2 + 1 ELSE 0
R_InverseTrig(s, i) == Sub(s, i, 3) \o <<"SUPMINUS", "SUP1", "(">>
fixInverseTrig(s) == ReplaceAll(s, M_InverseTrig, R_InverseTrig)

\* 6) /\(([^)]*?\d[a-z]*)\s+(\d+)\)/g -> "($1 - $2)".  A match runs from the
\*    "(" to the first ")" after it; its inside ends with spaces and digits
\*    that follow a digit and its lower-case letters
M_MinusAfterDigit(s, i) ==
  LET n == RunLenNot(s, i + 1, {")"})
      j == i + n + 1
      d == RunLenBack(s, j - 1, Digits)
      w == RunLenBack(s, j - 1 - d, Spaces)
      l == RunLenBack(s, j - 1 - d - w, Lower)
  IN IF s[i] = "(" /\ At(s, j) = ")" /\ d >= 1 /\ w >= 1
        /\ At(s, j - 1 - d - w - l) \in Digits
     THEN n + 2 ELSE 0
R_MinusInGroup(s, i) ==
  LET n == RunLenNot(s, i + 1, {")"})
      j == i + n + 1
      d == RunLenBack(s, j - 1, Digits)
      w == RunLenBack(s, j - 1 - d, Spaces)
  IN Sub(s, i, n + 1 - d - w) \o <<" ", "-", " ">> \o Sub(s, j - d, d) \o <<")">>
fixMinusAfterDigit(s) == ReplaceAll(s, M_MinusAfterDigit, R_MinusInGroup)

\*    /\(([^)]*?[a-zA-Z])\s+(\d+)\)/g -> "($1 - $2)"
M_MinusAfterLetter(s, i) ==
  LET n == RunLenNot(s, i + 1, {")"})
      j == i + n + 1
      d == RunLenBack(s, j - 1, Digits)
      w == RunLenBack(s, j - 1 - d, Spaces)
  IN IF s[i] = "(" /\ At(s, j) = ")" /\ d >= 1 /\ w >= 1
        /\ At(s, j - 1 - d - w) \in Letters
     THEN n + 2 ELSE 0
fixMinusAfterLetter(s) == ReplaceAll(s, M_MinusAfterLetter, R_MinusInGroup)

\*    /\|x\s+(\d+)\|/g -> "|x - $1|"
M_MinusInAbs(s, i) ==
  LET w == RunLen(s, i + 2, Spaces)
      d == RunLen(s, i + 2 + w, Digits)
  IN IF s[i] = "|" /\ At(s, i + 1) = "x" /\ w >= 1 /\ d >= 1
        /\ At(s, i + 2 + w + d) = "|"
     THEN 2 + w + d + 1 ELSE 0
R_MinusInAbs(s, i) ==
  LET w == RunLen(s, i + 2, Spaces)
      d == RunLen(s, i + 2 + w, Digits)
  IN <<"|", "x", " ", "-", " ">> \o Sub(s, i + 2 + w, d) \o <<"|">>
fixMinusInAbs(s) == ReplaceAll(s, M_MinusInAbs, R_MinusInAbs)

\*    /(\d+)\s*([a-zA-Z])\s+(\d+)\s*([a-zA-Z])/g -> "$1 $2 - $3 $4"
M_MinusTerms(s, i) ==
  LET d1 == RunLen(s, i, Digits)
      w1 == RunLen(s, i + d1, Spaces)
      a == i + d1 + w1
      w2 == RunLen(s, a + 1, Spaces)
      d2 == RunLen(s, a + 1 + w2, Digits)
      w3 == RunLen(s, a + 1 + w2 + d2, Spaces)
      b == a + 1 + w2 + d2 + w3
  IN IF d1 >= 1 /\ At(s, a) \in Letters /\ w2 >= 1 /\ d2 >= 1
        /\ At(s, b) \in Letters
     THEN b + 1 - i ELSE 0
R_MinusTerms(s, i) ==
  LET d1 == RunLen(s, i, Digits)
      w1 == RunLen(s, i + d1, Spaces)
      a == i + d1 + w1
      w2 == RunLen(s, a + 1, Spaces)
      d2 == RunLen(s, a + 1 + w2, Digits)
      w3 == RunLen(s, a + 1 + w2 + d2, Spaces)
      b == a + 1 + w2 + d2 + w3
  IN Sub(s, i, d1) \o <<" ", s[a], " ", "-", " ">> \o Sub(s, a + 1 + w2, d2)
       \o <<" ", s[b]>>
fixMinusTerms(s) == ReplaceAll(s, M_MinusTerms, R_MinusTerms)

\*    /([a-zA-Z])\s+(\d+)\)/g -> "$1 - $2)"
M_MinusBeforeClose(s, i) ==
  LET w == RunLen(s, i + 1, Spaces)
      d == RunLen(s, i + 1 + w, Digits)
  IN IF s[i] \in Letters /\ w >= 1 /\ d >= 1 /\ At(s, i + 1 + w + d) = ")"
     THEN 1 + w + d + 1 ELSE 0
R_MinusBeforeClose(s, i) ==
  LET w == RunLen(s, i + 1, Spaces)
      d == RunLen(s, i + 1 + w, Digits)
  IN <<s[i], " ", "-", " ">> \o Sub(s, i + 1 + w, d) \o <<")">>
fixMinusBeforeClose(s) == ReplaceAll(s, M_MinusBeforeClose, R_MinusBeforeClose)

fixInlineMathArtifacts(line) ==
  fixMinusBeforeClose(fixMinusTerms(fixMinusInAbs(fixMinusAfterLetter(
  fixMinusAfterDigit(fixInverseTrig(fixGroupPower(fixCaretPower(
  fixFracSpacedUnder(fixFracUnder(fixFracSlash(fixVulgar(fixDashes(line)
  ))))))))))))

(***************************************************************************)
(* mergeSuperscriptLines: re-attach superscripts split across lines        *)
(***************************************************************************)
SupGlyphs == {"SUP2", "SUP3", "SUP4", "SUP5", "SUP6", "SUP7", "SUP8", "SUP9"}

\* /^(\^?\d)$/.test(cur) || /^[SUP2..SUP9]$/.test(cur)
isSupLine(cur) ==
  \/ Len(cur) = 1 /\ cur[1] \in Digits
  \/ Len(cur) = 2 /\ cur[1] = "^" /\ cur[2] \in Digits
  \/ Len(cur) = 1 /\ cur[1] \in SupGlyphs

\* a variant of the test on prev that takes a digit at its end as well
prevEndsInWordCharOrGroup(out) ==
  /\ out # <<>>
  /\ LET prev == out[Len(out)]
         last == Len(prev) - RunLenBack(prev, Len(prev), Spaces)
     IN prev # <<>> /\ (At(prev, last) \in Letters \cup Digits
                          \/ At(prev, last) = ")")

\* prev && (/[a-zA-Z]\s*$/.test(prev) || /\)\s*$/.test(prev)), where out is
\* the output so far and prev its last line (undefined when out is empty)
prevLooksLikeVarOrGroup(out) ==
  /\ out # <<>>
  /\ LET prev == out[Len(out)]
         last == Len(prev) - RunLenBack(prev, Len(prev), Spaces)
     IN prev # <<>> /\ (At(prev, last) \in Letters \/ At(prev, last) = ")")

\* cur.replace("^", ""): the first "^" of cur removed
removeCaret(cur) ==
  IF \E k \in 1..Len(cur) : cur[k] = "^"
  THEN LET k == CHOOSE k \in 1..Len(cur) :
                  cur[k] = "^" /\ \A h \in 1..(k - 1) : cur[h] # "^"
       IN SubSeq(cur, 1, k - 1) \o SubSeq(cur, k + 1, Len(cur))
  ELSE cur

\* the characters of s, each mapped by superscriptChar (s is one character
\* where the source calls it)
superscriptOf(s) == [k \in 1..Len(s) |-> superscriptChar(s[k])]

\* a variant of the iteration that tests the line before it is trimmed and
\* pushes it trimmed
mergeStepUntrimmedTest(out, line) ==
  LET cur == trim(line)
      prev == out[Len(out)]
  IN IF isSupLine(line) /\ prevLooksLikeVarOrGroup(out)
     THEN IF Len(cur) = 1 /\ cur[1] \in SupGlyphs
          THEN [out EXCEPT ![Len(out)] = prev \o cur]
          ELSE [out EXCEPT ![Len(out)] = prev \o superscriptOf(removeCaret(cur))]
     ELSE Append(out, cur)

\* one iteration of the loop of mergeSuperscriptLines
mergeStep(out, line) ==
  LET cur == trim(line)
      prev == out[Len(out)]
  IN IF isSupLine(cur) /\ prevLooksLikeVarOrGroup(out)
     THEN IF Len(cur) = 1 /\ cur[1] \in SupGlyphs
          THEN [out EXCEPT ![Len(out)] = prev \o cur]
          ELSE [out EXCEPT ![Len(out)] = prev \o superscriptOf(removeCaret(cur))]
     ELSE Append(out, line)

mergeSuperscriptLines(lines) ==
  LET RECURSIVE loop(_, _)
      loop(out, i) == IF i > Len(lines) THEN out
                      ELSE loop(mergeStep(out, lines[i]), i + 1)
  IN loop(<<>>, 1)

(***************************************************************************)
(* Line grouping of one page (extractTextFromPdf, step 1).  The state of   *)
(* the loop is [currentY, buff, lines]; currentY is <<>> for null and      *)
(* <<y>> for the number y.                                                 *)
(***************************************************************************)
\* the tolerance 3.5, in half units
Tolerance == 7

abs(n) == IF n < 0 THEN -n ELSE n

GroupInit == [currentY |-> <<>>, buff |-> <<>>, lines |-> <<>>]

\* buff.join(" ").replace(/\s{2,}/g, " ").trim()
rawLine(buff) == trim(collapseSpaces2(join(buff, <<" ">>)))

\* a variant of flush that leaves the pushed texts in buff
flushKeepsBuff(g) ==
  IF g.buff # <<>>
  THEN LET fixed == fixInlineMathArtifacts(rawLine(g.buff))
       IN [g EXCEPT !.lines = IF fixed # <<>>
                              THEN Append(@, [y |-> g.currentY[1], text |-> fixed])
                              ELSE @]
  ELSE g

flush(g) ==
  IF g.buff # <<>>
  THEN LET fixed == fixInlineMathArtifacts(rawLine(g.buff))
       IN [g EXCEPT !.buff = <<>>,
                    !.lines = IF fixed # <<>>
                              THEN Append(@, [y |-> g.currentY[1], text |-> fixed])
                              ELSE @]
  ELSE g

\* Math.abs(y - (currentY ?? y)) > 3.5
newLine(g, y) ==
  abs(y - (IF g.currentY = <<>> THEN y ELSE g.currentY[1])) > Tolerance

\* a variant of the loop body that moves currentY to every item
groupItemRunning(g, it) ==
  LET g1 == IF newLine(g, it.y) THEN flush(g) ELSE g
  IN [g1 EXCEPT !.currentY = <<it.y>>, !.buff = Append(@, it.str)]

\* the body of the loop over the items of the page
groupItem(g, it) ==
  LET g1 == IF newLine(g, it.y) THEN [flush(g) EXCEPT !.currentY = <<it.y>>]
            ELSE IF g.currentY = <<>> THEN [g EXCEPT !.currentY = <<it.y>>]
            ELSE g
  IN [g1 EXCEPT !.buff = Append(@, it.str)]

\* the lines of a page: the loop over its items and the final flush
groupLines(items) ==
  LET RECURSIVE loop(_, _)
      loop(g, i) == IF i > Len(items) THEN flush(g)
                    ELSE loop(groupItem(g, items[i]), i + 1)
  IN loop(GroupInit, 1).lines

\* lines.map((l) => l.text).filter(Boolean)
lineTexts(lines) ==
  LET texts == [k \in 1..Len(lines) |-> lines[k].text]
      nonEmpty(x) == x # <<>>
  IN SelectSeq(texts, nonEmpty)

\* the merged lines of one page, pushed on pagesRawLines
pageRawLines(items) == mergeSuperscriptLines(lineTexts(groupLines(items)))

(***************************************************************************)
(* Chrome filter (extractTextFromPdf, steps 2 to 4)                        *)
(***************************************************************************)
\* the literal w (lower case) at s[i], compared as the i flag compares
HasAtCI(s, i, w) == \A k \in 1..Len(w) : toLowerCase(At(s, i + k - 1)) = w[k]

\* freq.get(line): the occurrences of line on all pages
RECURSIVE countIn(_, _)
countIn(lines, line) ==
  IF lines = <<>> THEN 0
  ELSE (IF Head(lines) = line THEN 1 ELSE 0) + countIn(Tail(lines), line)
RECURSIVE freq(_, _)
freq(pagesRawLines, line) ==
  IF pagesRawLines = <<>> THEN 0
  ELSE countIn(Head(pagesRawLines), line) + freq(Tail(pagesRawLines), line)

\* Math.max(2, Math.floor(numPages * 0.5))
chromeThreshold(n) == IF n \div 2 > 2 THEN n \div 2 ELSE 2

\* a variant of the test that needs more occurrences than the threshold
chromeHasAbove(pagesRawLines, line) ==
  freq(pagesRawLines, line) > chromeThreshold(Len(pagesRawLines))

\* chrome.has(line)
chromeHas(pagesRawLines, line) ==
  freq(pagesRawLines, line) >= chromeThreshold(Len(pagesRawLines))

\* /(^|\s)Page\s*\d+(\s*of\s*\d+)?/i
junkPageNumber(s) ==
  \E i \in 1..Len(s) :
    /\ i = 1 \/ s[i - 1] \in Spaces
    /\ HasAtCI(s, i, <<"p","a","g","e">>)
    /\ At(s, i + 4 + RunLen(s, i + 4, Spaces)) \in Digits
\* /Unit\s*\d+_Book_\d+\.indb/i
junkIndesign(s) ==
  \E i \in 1..Len(s) :
    LET w == RunLen(s, i + 4, Spaces)
        d1 == RunLen(s, i + 4 + w, Digits)
        b == i + 4 + w + d1
        d2 == RunLen(s, b + 6, Digits)
    IN /\ HasAtCI(s, i, <<"u","n","i","t">>)
       /\ d1 >= 1 /\ d2 >= 1
       /\ HasAtCI(s, b, <<"_","b","o","o","k","_">>)
       /\ HasAtCI(s, b + 6 + d2, <<".","i","n","d","b">>)
\* /~\/|[A-Z]:\\|desktop/i
junkPath(s) ==
  \E i \in 1..Len(s) :
    \/ s[i] = "~" /\ At(s, i + 1) = "/"
    \/ s[i] \in Letters /\ At(s, i + 1) = ":" /\ At(s, i + 2) = "\\"
    \/ HasAtCI(s, i, <<"d","e","s","k","t","o","p">>)
\* /^\d{2,}\s*$/
junkBigNumber(s) ==
  LET d == RunLen(s, 1, Digits)
  IN d >= 2 /\ d + RunLen(s, d + 1, Spaces) = Len(s)
\* /^\d+\s+Algebra\s*1\s*BULLET\s*Unit\s*\d+/i
junkAlgebraHeader(s) ==
  LET d == RunLen(s, 1, Digits)
      w1 == RunLen(s, d + 1, Spaces)
      a == d + w1 + 1
      w2 == RunLen(s, a + 7, Spaces)
      one == a + 7 + w2
      w3 == RunLen(s, one + 1, Spaces)
      bul == one + 1 + w3
      w4 == RunLen(s, bul + 1, Spaces)
      u == bul + 1 + w4
      w5 == RunLen(s, u + 4, Spaces)
  IN /\ d >= 1 /\ w1 >= 1
     /\ HasAtCI(s, a, <<"a","l","g","e","b","r","a">>)
     /\ At(s, one) = "1" /\ At(s, bul) = "BULLET"
     /\ HasAtCI(s, u, <<"u","n","i","t">>)
     /\ At(s, u + 4 + w5) \in Digits

\* junkRegexes.some((rx) => rx.test(line))
isJunk(line) ==
  \/ junkPageNumber(line) \/ junkIndesign(line) \/ junkPath(line)
  \/ junkBigNumber(line) \/ junkAlgebraHeader(line)

\* the filter of step 4
keptLine(pagesRawLines, line) ==
  ~chromeHas(pagesRawLines, line) /\ ~isJunk(line)

cleanedPages(pagesRawLines) ==
  [p \in 1..Len(pagesRawLines) |->
     LET keep(line) == keptLine(pagesRawLines, line)
     IN join(SelectSeq(pagesRawLines[p], keep), <<"\n">>)]

(***************************************************************************)
(* buildSentences                                                          *)
(***************************************************************************)
\* s.replace(/\.(?=\S)/g, ". ")
M_PeriodGlued(s, i) ==
  IF s[i] = "." /\ i < Len(s) /\ s[i + 1] \notin Spaces THEN 1 ELSE 0
R_PeriodSpace(s, i) == <<".", " ">>
spaceAfterPeriod(s) == ReplaceAll(s, M_PeriodGlued, R_PeriodSpace)

\* txt.replace(/\s+/g, " ").replace(/\.(?=\S)/g, ". ").trim()
cleanText(txt) == trim(spaceAfterPeriod(collapseSpaces1(txt)))

SentenceEnd == {".", "!", "?"}
SentenceStart == Upper \cup Digits \cup {"(", "\"", "'", "["}

\* a variant of the separator without the lookahead
M_SentenceGapAnyStart(s, i) ==
  LET w == RunLen(s, i, Spaces)
  IN IF At(s, i - 1) \in SentenceEnd /\ w >= 1 THEN w ELSE 0

\* the separator /(?<=[.!?])\s+(?=[A-Z0-9("\"'\[])/ at s[i]: its length, or 0
M_SentenceGap(s, i) ==
  LET w == RunLen(s, i, Spaces)
  IN IF At(s, i - 1) \in SentenceEnd /\ w >= 1 /\ At(s, i + w) \in SentenceStart
     THEN w ELSE 0

\* String.prototype.split with that separator
splitSentences(s) ==
  LET RECURSIVE go(_, _)
      go(p, q) == IF q > Len(s) THEN <<SubSeq(s, p, Len(s))>>
                  ELSE IF M_SentenceGap(s, q) > 0
                  THEN <<SubSeq(s, p, q - 1)>>
                         \o go(q + M_SentenceGap(s, q), q + M_SentenceGap(s, q))
                  ELSE go(p, q + 1)
  IN go(1, 1)

\* the chunks of one page: split, trimmed, the empty ones dropped
pageChunks(txt) ==
  LET parts == splitSentences(cleanText(txt))
      trimmed == [k \in 1..Len(parts) |-> trim(parts[k])]
      nonEmpty(x) == x # <<>>
  IN SelectSeq(trimmed, nonEmpty)

\* a variant of the page number that keeps the index of forEach
pageTagOfIndex(i) == i - 1

\* the page number pushed with the chunks of pages[i] (i counted from 1)
pageTag(i) == i

buildSentences(pages) ==
  LET RECURSIVE each(_)
      each(i) == IF i > Len(pages) THEN <<>>
                 ELSE LET chunks == pageChunks(pages[i])
                      IN [k \in 1..Len(chunks) |->
                            [text |-> chunks[k], page |-> pageTag(i)]]
                         \o each(i + 1)
  IN each(1)

(***************************************************************************)
(* Math normalization: looksMathy and normalizeForSpeech                   *)
(***************************************************************************)
MathChars == {"=", "+", "MINUS", "-", "*", "/", "TIMES", "^", "SQRT", "(", ")",
              "{", "}", "[", "]", "|", "<", ">", "LE", "GE", "%"}
MathWords == {<<"s","i","n">>, <<"c","o","s">>, <<"t","a","n">>, <<"l","o","g">>, <<"l","n">>, <<"l","i","m">>, <<"INTEGRAL">>, <<"sigma">>}

\* /[=+...%]|(?:\b(?:sin|cos|tan|log|ln|lim|INTEGRAL|SIGMA)\b)/i.test(s)
looksMathy(s) ==
  \E i \in 1..Len(s) :
    \/ s[i] \in MathChars
    \/ \E w \in MathWords :
         HasAtCI(s, i, w) /\ WordBoundary(s, i) /\ WordBoundary(s, i + Len(w))

\* /([a-zA-Z])G/g -> "$1" and words, for a superscript glyph G
replaceSuperscript(t, glyph, words) ==
  LET M(s, i) == IF s[i] \in Letters /\ At(s, i + 1) = glyph THEN 2 ELSE 0
      R(s, i) == <<s[i]>> \o words
  IN ReplaceAll(t, M, R)

\* the step that runs on every sentence
speakSuperscripts(s) ==
  replaceSuperscript(replaceSuperscript(replaceSuperscript(replaceSuperscript(
  replaceSuperscript(replaceSuperscript(replaceSuperscript(replaceSuperscript(
    s, "SUP2", <<" ","s","q","u","a","r","e","d">>), "SUP3", <<" ","c","u","b","e","d">>), "SUP4", <<" ","t","o"," ","t","h","e"," ","p","o","w","e","r"," ","o","f"," ","4">>),
    "SUP5", <<" ","t","o"," ","t","h","e"," ","p","o","w","e","r"," ","o","f"," ","5">>), "SUP6", <<" ","t","o"," ","t","h","e"," ","p","o","w","e","r"," ","o","f"," ","6">>),
    "SUP7", <<" ","t","o"," ","t","h","e"," ","p","o","w","e","r"," ","o","f"," ","7">>), "SUP8", <<" ","t","o"," ","t","h","e"," ","p","o","w","e","r"," ","o","f"," ","8">>),
    "SUP9", <<" ","t","o"," ","t","h","e"," ","p","o","w","e","r"," ","o","f"," ","9">>)

\* /\b([a-zA-Z])\s*\^\s*D\b/g -> "$1" and words, for the digit D
replaceCaretDigit(t, digit, words) ==
  LET P(s, i) == i + 1 + RunLen(s, i + 1, Spaces) + 1
                   + RunLen(s, i + 1 + RunLen(s, i + 1, Spaces) + 1, Spaces)
      M(s, i) == IF /\ WordBoundary(s, i) /\ s[i] \in Letters
                    /\ At(s, i + 1 + RunLen(s, i + 1, Spaces)) = "^"
                    /\ At(s, P(s, i)) = digit /\ WordBoundary(s, P(s, i) + 1)
                 THEN P(s, i) + 1 - i ELSE 0
      R(s, i) == <<s[i]>> \o words
  IN ReplaceAll(t, M, R)

\* /\b([a-zA-Z])\s*\^\s*(\d+)\b/g -> "$1 to the power of $2"
M_CaretNumber(s, i) ==
  LET w1 == RunLen(s, i + 1, Spaces)
      w2 == RunLen(s, i + 1 + w1 + 1, Spaces)
      p == i + 1 + w1 + 1 + w2
      d == RunLen(s, p, Digits)
  IN IF /\ WordBoundary(s, i) /\ s[i] \in Letters /\ At(s, i + 1 + w1) = "^"
        /\ d >= 1 /\ WordBoundary(s, p + d)
     THEN p + d - i ELSE 0
R_CaretNumber(s, i) ==
  LET w1 == RunLen(s, i + 1, Spaces)
      w2 == RunLen(s, i + 1 + w1 + 1, Spaces)
      p == i + 1 + w1 + 1 + w2
  IN <<s[i]>> \o <<" ","t","o"," ","t","h","e"," ","p","o","w","e","r"," ","o","f"," ">> \o Sub(s, p, RunLen(s, p, Digits))

speakCaretPowers(s) ==
  ReplaceAll(replaceCaretDigit(replaceCaretDigit(s, "2", <<" ","s","q","u","a","r","e","d">>),
                               "3", <<" ","c","u","b","e","d">>),
             M_CaretNumber, R_CaretNumber)

\* /([a-zA-Z])\s*(2|3)(?=[^a-zA-Z]|$)/g with the callback that looks for an
\* operator in str.slice(Math.max(0, offset - 4), offset + 4)
M_OcrPower(s, i) ==
  LET w == RunLen(s, i + 1, Spaces)
  IN IF s[i] \in Letters /\ At(s, i + 1 + w) \in {"2", "3"}
        /\ At(s, i + 2 + w) \notin Letters
     THEN w + 2 ELSE 0
R_OcrPower(s, i) ==
  LET w == RunLen(s, i + 1, Spaces)
      ctx == {At(s, k) : k \in (i - 4)..(i + 3)}
  IN IF ctx \cap {"=", "+", "-", "TIMES", "*", "/", "("} # {}
     THEN <<s[i]>> \o (IF s[i + 1 + w] = "2" THEN <<" ","s","q","u","a","r","e","d">> ELSE <<" ","c","u","b","e","d">>)
     ELSE Sub(s, i, w + 2)
speakOcrPowers(s) == ReplaceAll(s, M_OcrPower, R_OcrPower)

\* /\b([a-zA-Z])\s*\(\s*([a-zA-Z0-9]+)\s*\)/g -> "$1 of $2"
M_FunctionCall(s, i) ==
  LET w1 == RunLen(s, i + 1, Spaces)
      w2 == RunLen(s, i + 1 + w1 + 1, Spaces)
      a == i + 1 + w1 + 1 + w2
      n == RunLen(s, a, Letters \cup Digits)
      w3 == RunLen(s, a + n, Spaces)
  IN IF /\ WordBoundary(s, i) /\ s[i] \in Letters /\ At(s, i + 1 + w1) = "("
        /\ n >= 1 /\ At(s, a + n + w3) = ")"
     THEN a + n + w3 + 1 - i ELSE 0
R_FunctionCall(s, i) ==
  LET w1 == RunLen(s, i + 1, Spaces)
      w2 == RunLen(s, i + 1 + w1 + 1, Spaces)
      a == i + 1 + w1 + 1 + w2
  IN <<s[i]>> \o <<" ","o","f"," ">> \o Sub(s, a, RunLen(s, a, Letters \cup Digits))
speakFunctionCalls(s) == ReplaceAll(s, M_FunctionCall, R_FunctionCall)

\* /[C]/g -> words, for a class C of characters
replaceChars(t, C, words) ==
  LET M(s, i) == IF s[i] \in C THEN 1 ELSE 0
      R(s, i) == words
  IN ReplaceAll(t, M, R)

\* /(?<=\w)\/(?=\w)/g -> " divided by "
M_Divide(s, i) ==
  IF s[i] = "/" /\ At(s, i - 1) \in WordChars /\ At(s, i + 1) \in WordChars
  THEN 1 ELSE 0
R_Divide(s, i) == <<" ","d","i","v","i","d","e","d"," ","b","y"," ">>

\* a variant of the operators that leaves every "/" to the fraction rule
speakOperatorsKeepSlash(s) ==
  replaceChars(replaceChars(replaceChars(replaceChars(replaceChars(
    s, {"BULLET", "MIDDOT"}, <<" ">>), {"="}, <<" ","e","q","u","a","l","s"," ">>), {"+"}, <<" ","p","l","u","s"," ">>),
    {"MINUS", "ENDASH", "EMDASH", "-"}, <<" ","m","i","n","u","s"," ">>), {"TIMES", "*"}, <<" ","t","i","m","e","s"," ">>)

\* the operators, in the order of the source
speakOperators(s) ==
  ReplaceAll(
    replaceChars(replaceChars(replaceChars(replaceChars(replaceChars(
      s, {"BULLET", "MIDDOT"}, <<" ">>), {"="}, <<" ","e","q","u","a","l","s"," ">>), {"+"}, <<" ","p","l","u","s"," ">>),
      {"MINUS", "ENDASH", "EMDASH", "-"}, <<" ","m","i","n","u","s"," ">>), {"TIMES", "*"}, <<" ","t","i","m","e","s"," ">>),
    M_Divide, R_Divide)

\* \([^)]*\) at s[i]: its length, or 0
ParenGroupLen(s, i) ==
  LET n == RunLenNot(s, i + 1, {")"})
  IN IF At(s, i) = "(" /\ At(s, i + 1 + n) = ")" THEN n + 2 ELSE 0
\* (\([^)]*\)|\S+) at s[i] as the last part of a pattern: its length, or 0
OperandLen(s, i) ==
  IF ParenGroupLen(s, i) > 0 THEN ParenGroupLen(s, i) ELSE RunLenNot(s, i, Spaces)
\* the length of $1 in /(\([^)]*\)|\S+)\/(\([^)]*\)|\S+)/ matched at s[i], or
\* 0: a parenthesized group followed by "/" and an operand, else the longest
\* prefix of the run of non-spaces that is followed by "/" and an operand
NumeratorLen(s, i) ==
  LET g == ParenGroupLen(s, i)
      r == RunLenNot(s, i, Spaces)
      K == {k \in 1..(r - 1) : s[i + k] = "/" /\ OperandLen(s, i + k + 1) > 0}
  IN IF i > Len(s) THEN 0
     ELSE IF g > 0 /\ At(s, i + g) = "/" /\ OperandLen(s, i + g + 1) > 0 THEN g
     ELSE IF K # {} THEN CHOOSE k \in K : \A h \in K : h <= k
     ELSE 0
M_Fraction(s, i) ==
  IF NumeratorLen(s, i) > 0
  THEN NumeratorLen(s, i) + 1 + OperandLen(s, i + NumeratorLen(s, i) + 1)
  ELSE 0
R_Fraction(s, i) ==
  LET a == NumeratorLen(s, i)
  IN <<"(">> \o Sub(s, i, a) \o <<")"," ","o","v","e","r"," ","(">>
       \o Sub(s, i + a + 1, OperandLen(s, i + a + 1)) \o <<")">>
speakFractions(s) == ReplaceAll(s, M_Fraction, R_Fraction)

\* /SQRT\(?([^)]+)\)?/g -> " square root of $1 "
RootArgStart(s, i) ==
  IF At(s, i + 1) = "(" /\ RunLenNot(s, i + 2, {")"}) >= 1 THEN i + 2 ELSE i + 1
M_Root(s, i) ==
  LET a == RootArgStart(s, i)
      n == RunLenNot(s, a, {")"})
  IN IF s[i] = "SQRT" /\ n >= 1
     THEN a + n + (IF At(s, a + n) = ")" THEN 1 ELSE 0) - i ELSE 0
R_Root(s, i) ==
  LET a == RootArgStart(s, i)
  IN <<" ","s","q","u","a","r","e"," ","r","o","o","t"," ","o","f"," ">> \o Sub(s, a, RunLenNot(s, a, {")"})) \o <<" ">>
speakRoots(s) == ReplaceAll(s, M_Root, R_Root)

\* /\bFN\(?([^)]+)?\)?/gi -> words and "$1", for FN one of sin, cos, tan
replaceTrig(t, fn, words) ==
  LET A(s, i) == i + 3 + (IF At(s, i + 3) = "(" THEN 1 ELSE 0)
      M(s, i) == IF WordBoundary(s, i) /\ HasAtCI(s, i, fn)
                 THEN A(s, i) + RunLenNot(s, A(s, i), {")"})
                        + (IF At(s, A(s, i) + RunLenNot(s, A(s, i), {")"})) = ")"
                           THEN 1 ELSE 0) - i
                 ELSE 0
      R(s, i) == words \o Sub(s, A(s, i), RunLenNot(s, A(s, i), {")"}))
  IN ReplaceAll(t, M, R)

\* /\bln\(/gi -> " natural log of ("
M_Ln(s, i) == IF WordBoundary(s, i) /\ HasAtCI(s, i, <<"l","n","(">>) THEN 3 ELSE 0
R_Ln(s, i) == <<" ","n","a","t","u","r","a","l"," ","l","o","g"," ","o","f"," ","(">>
\* /\blog_?(\d+)?\(/gi -> " log base $1 of ("
M_Log(s, i) ==
  LET u == IF At(s, i + 3) = "_" THEN 1 ELSE 0
      d == RunLen(s, i + 3 + u, Digits)
  IN IF WordBoundary(s, i) /\ HasAtCI(s, i, <<"l","o","g">>) /\ At(s, i + 3 + u + d) = "("
     THEN 3 + u + d + 1 ELSE 0
R_Log(s, i) ==
  LET u == IF At(s, i + 3) = "_" THEN 1 ELSE 0
  IN <<" ","l","o","g"," ","b","a","s","e"," ">> \o Sub(s, i + 3 + u, RunLen(s, i + 3 + u, Digits)) \o <<" ","o","f"," ","(">>

speakTrigAndLogs(s) ==
  ReplaceAll(ReplaceAll(
    replaceTrig(replaceTrig(replaceTrig(s, <<"s","i","n">>, <<"s","i","n","e"," ","o","f"," ">>),
                            <<"c","o","s">>, <<"c","o","s","i","n","e"," ","o","f"," ">>), <<"t","a","n">>, <<"t","a","n","g","e","n","t"," ","o","f"," ">>),
    M_Ln, R_Ln), M_Log, R_Log)

\* /\blim\b/gi -> " limit "
M_Lim(s, i) ==
  IF WordBoundary(s, i) /\ HasAtCI(s, i, <<"l","i","m">>) /\ WordBoundary(s, i + 3)
  THEN 3 ELSE 0
R_Lim(s, i) == <<" ","l","i","m","i","t"," ">>

speakRelationsAndSums(s) ==
  ReplaceAll(
    replaceChars(replaceChars(replaceChars(replaceChars(replaceChars(replaceChars(
      s, {"LE"}, <<" ","l","e","s","s"," ","t","h","a","n"," ","o","r"," ","e","q","u","a","l"," ","t","o"," ">>),
      {"GE"}, <<" ","g","r","e","a","t","e","r"," ","t","h","a","n"," ","o","r"," ","e","q","u","a","l"," ","t","o"," ">>), {"<"}, <<" ","l","e","s","s"," ","t","h","a","n"," ">>),
      {">"}, <<" ","g","r","e","a","t","e","r"," ","t","h","a","n"," ">>), {"SIGMA"}, <<" ","s","u","m"," ","o","f"," ">>),
      {"INTEGRAL"}, <<" ","i","n","t","e","g","r","a","l"," ","o","f"," ">>),
    M_Lim, R_Lim)

\* the rules behind the gate, in the order of the source
speakMath(t) ==
  speakRelationsAndSums(speakTrigAndLogs(speakRoots(speakFractions(
  speakOperators(speakFunctionCalls(speakOcrPowers(speakCaretPowers(t))))))))

normalizeForSpeech(s) ==
  LET t == speakSuperscripts(s)
  IN trim(collapseSpaces2(IF looksMathy(t) THEN speakMath(t) ELSE t))

(***************************************************************************)
(* The component: its state, the extraction of an uploaded file, and the   *)
(* speech controls.                                                        *)
(***************************************************************************)
VARIABLES
  pdfName,          \* useState: name of the last uploaded file
  numPages,         \* useState
  textByPage,       \* useState: the page texts
  sentences,        \* useState: sequence of [text, page]
  currentSentence,  \* useState: index into sentences, counted from 0
  mathMode,         \* useState
  isLoading,        \* useState
  isSpeaking,       \* useState
  error,            \* useState: <<>> for null, else <<message>>
  utterance,        \* the speech engine's queue: <<>> or one utterance
                    \* [text, started], the one of utteranceRef
  paused,           \* window.speechSynthesis.paused
  uploads,          \* how many times extractTextFromPdf has been called
  calls,            \* the calls of extractTextFromPdf that have not returned,
                    \* in the order they were made: [file, pc, pagesRawLines]
  arg, ret, loop    \* argument, results and loop state of a function that is
                    \* run on its own (unused by the component)

vars == <<pdfName, numPages, textByPage, sentences, currentSentence, mathMode,
          isLoading, isSpeaking, error, utterance, paused, uploads, calls,
          arg, ret, loop>>

\* how many files are uploaded in one run
MaxUploads == 2

\* The files a user uploads, as the decoder reads them: a name and, per page,
\* the items of getTextContent.  FileA has a running title on both pages and
\* a superscript on a line of its own; FileC is one page without text.
FileA == [name |-> "a.pdf",
          pages |-> << <<[str |-> <<"T">>, y |-> 96], [str |-> <<"x">>, y |-> 80], [str |-> <<"2">>, y |-> 70], [str |-> <<"="," ","4",".">>, y |-> 60]>>,
                       <<[str |-> <<"T">>, y |-> 96], [str |-> <<"C"," ","d",".">>, y |-> 80]>> >>]
FileB == [name |-> "b.pdf", pages |-> << <<[str |-> <<"E"," ","f",".">>, y |-> 80]>> >>]
FileC == [name |-> "c.pdf", pages |-> << <<>> >>]
Files == {FileA, FileB, FileC}

ErrorMessage == "Failed to read PDF. Please try a different file."

ComponentInit ==
  /\ pdfName = "" /\ numPages = 0 /\ textByPage = <<>> /\ sentences = <<>>
  /\ currentSentence = 0 /\ mathMode = TRUE /\ isLoading = FALSE
  /\ isSpeaking = FALSE /\ error = <<>> /\ utterance = <<>> /\ paused = FALSE
  /\ uploads = 0 /\ calls = <<>>

Init == ComponentInit /\ arg = <<>> /\ ret = <<>> /\ loop = <<>>

\* the sequence s without its element c
RemoveAt(s, c) == SubSeq(s, 1, c - 1) \o SubSeq(s, c + 1, Len(s))

\* extractTextFromPdf up to its first await.  A call waits at pc
\* "getDocument" for file.arrayBuffer(), loadPdfJs() and getDocument, which
\* change nothing of the component between them, and at "getTextContent" for
\* getPage and getTextContent of the page after those of pagesRawLines.
extractTextFromPdf(file) ==
  /\ uploads < MaxUploads
  /\ uploads' = uploads + 1
  /\ isLoading' = TRUE /\ error' = <<>> /\ pdfName' = file.name
  /\ currentSentence' = 0
  /\ calls' = Append(calls, [file |-> file, pc |-> "getDocument",
                             pagesRawLines |-> <<>>])
  /\ UNCHANGED <<numPages, textByPage, sentences, mathMode, isSpeaking,
                 utterance, paused, arg, ret, loop>>

\* a variant of publish that adds the pages to those already shown
publishAppending(c, pagesRawLines) ==
  /\ textByPage' = textByPage \o cleanedPages(pagesRawLines)
  /\ sentences' = sentences \o buildSentences(cleanedPages(pagesRawLines))
  /\ isLoading' = FALSE
  /\ calls' = RemoveAt(calls, c)

\* a variant of publish that drops the result of a call that is not the
\* latest one made
publishLatestOnly(c, pagesRawLines) ==
  /\ IF c = Len(calls)
     THEN /\ textByPage' = cleanedPages(pagesRawLines)
          /\ sentences' = buildSentences(cleanedPages(pagesRawLines))
     ELSE UNCHANGED <<textByPage, sentences>>
  /\ isLoading' = FALSE
  /\ calls' = RemoveAt(calls, c)

\* steps 2 to 4 and the two setters, then the finally block: the end of the
\* try block, run without an await once the last page is read
publish(c, pagesRawLines) ==
  /\ textByPage' = cleanedPages(pagesRawLines)
  /\ sentences' = buildSentences(cleanedPages(pagesRawLines))
  /\ isLoading' = FALSE
  /\ calls' = RemoveAt(calls, c)

\* await getDocument(...).promise resolves
GetDocumentDone(c) ==
  /\ calls[c].pc = "getDocument"
  /\ numPages' = Len(calls[c].file.pages)
  /\ IF Len(calls[c].file.pages) = 0
     THEN publish(c, <<>>)
     ELSE /\ calls' = [calls EXCEPT ![c].pc = "getTextContent"]
          /\ UNCHANGED <<textByPage, sentences, isLoading>>
  /\ UNCHANGED <<pdfName, currentSentence, mathMode, isSpeaking, error,
                 utterance, paused, uploads, arg, ret, loop>>

\* await page.getTextContent() resolves: the lines of page p, then the next
\* page or the rest of the function
GetTextContentDone(c) ==
  /\ calls[c].pc = "getTextContent"
  /\ LET p == Len(calls[c].pagesRawLines) + 1
         merged == pageRawLines(calls[c].file.pages[p])
         pagesRawLines == Append(calls[c].pagesRawLines, merged)
     IN IF p < Len(calls[c].file.pages)
        THEN /\ calls' = [calls EXCEPT ![c].pagesRawLines = pagesRawLines]
             /\ UNCHANGED <<textByPage, sentences, isLoading>>
        ELSE publish(c, pagesRawLines)
  /\ UNCHANGED <<pdfName, numPages, currentSentence, mathMode, isSpeaking,
                 error, utterance, paused, uploads, arg, ret, loop>>

\* a variant of the catch block that shows the pages read before the failure
catchFinallyPartial(c) ==
  /\ error' = <<ErrorMessage>>
  /\ isLoading' = FALSE
  /\ calls' = RemoveAt(calls, c)
  /\ textByPage' = cleanedPages(calls[c].pagesRawLines)
  /\ sentences' = buildSentences(cleanedPages(calls[c].pagesRawLines))

\* the catch and finally blocks
catchFinally(c) ==
  /\ error' = <<ErrorMessage>>
  /\ isLoading' = FALSE
  /\ calls' = RemoveAt(calls, c)
  /\ UNCHANGED <<textByPage, sentences>>

\* an await of the try block rejects
Reject(c) ==
  /\ catchFinally(c)
  /\ UNCHANGED <<pdfName, numPages, currentSentence, mathMode, isSpeaking,
                 utterance, paused, uploads, arg, ret, loop>>

\* a variant of the choice that normalizes whatever the mode
spokenTextAlways(raw, mode) == normalizeForSpeech(raw)

\* mathMode ? normalizeForSpeech(raw) : raw
spokenText(raw, mode) == IF mode THEN normalizeForSpeech(raw) ELSE raw

startSpeakingFrom(index) ==
  /\ sentences # <<>>
  /\ currentSentence' = index
  /\ utterance' =
       IF index + 1 \in 1..Len(sentences)
       THEN <<[text |-> spokenText(sentences[index + 1].text, mathMode),
               started |-> FALSE]>>
       ELSE \* sentences[index] is undefined and reading its text throws,
            \* after speechSynthesis.cancel() and setCurrentSentence(index)
            <<>>
  /\ UNCHANGED <<pdfName, numPages, textByPage, sentences, mathMode, isLoading,
                 isSpeaking, error, paused, uploads, calls, arg, ret, loop>>

toggleSpeak ==
  /\ sentences # <<>>
  /\ IF isSpeaking
     THEN /\ paused' = TRUE /\ isSpeaking' = FALSE
          /\ UNCHANGED <<pdfName, numPages, textByPage, sentences,
                         currentSentence, mathMode, isLoading, error, utterance,
                         uploads, calls, arg, ret, loop>>
     ELSE IF paused
     THEN /\ paused' = FALSE /\ isSpeaking' = TRUE
          /\ UNCHANGED <<pdfName, numPages, textByPage, sentences,
                         currentSentence, mathMode, isLoading, error, utterance,
                         uploads, calls, arg, ret, loop>>
     ELSE startSpeakingFrom(currentSentence)

stopSpeaking ==
  /\ utterance' = <<>> /\ isSpeaking' = FALSE
  /\ UNCHANGED <<pdfName, numPages, textByPage, sentences, currentSentence,
                 mathMode, isLoading, error, paused, uploads, calls,
                 arg, ret, loop>>

nextSentence ==
  /\ currentSentence < Len(sentences) - 1
  /\ startSpeakingFrom(currentSentence + 1)

prevSentence ==
  /\ currentSentence > 0
  /\ startSpeakingFrom(currentSentence - 1)

\* a click on sentence index of the reading view
speakAt(index, selectOnly) ==
  /\ sentences # <<>>
  /\ IF selectOnly
     THEN /\ currentSentence' = index
          /\ UNCHANGED <<pdfName, numPages, textByPage, sentences, mathMode,
                         isLoading, isSpeaking, error, utterance, paused,
                         uploads, calls, arg, ret, loop>>
     ELSE startSpeakingFrom(index)

\* the "Math reading" checkbox
setMathMode(checked) ==
  /\ mathMode' = checked
  /\ UNCHANGED <<pdfName, numPages, textByPage, sentences, currentSentence,
                 isLoading, isSpeaking, error, utterance, paused, uploads,
                 calls, arg, ret, loop>>

\* the engine starts the queued utterance: u.onstart
UtteranceStart ==
  /\ utterance # <<>> /\ ~utterance[1].started /\ ~paused
  /\ utterance' = <<[utterance[1] EXCEPT !.started = TRUE]>>
  /\ isSpeaking' = TRUE
  /\ UNCHANGED <<pdfName, numPages, textByPage, sentences, currentSentence,
                 mathMode, isLoading, error, paused, uploads, calls,
                 arg, ret, loop>>

\* the engine finishes or fails the utterance: u.onend, u.onerror
UtteranceEnd ==
  /\ utterance # <<>> /\ utterance[1].started /\ ~paused
  /\ utterance' = <<>>
  /\ isSpeaking' = FALSE
  /\ UNCHANGED <<pdfName, numPages, textByPage, sentences, currentSentence,
                 mathMode, isLoading, error, paused, uploads, calls,
                 arg, ret, loop>>

Next ==
  \/ \E file \in Files : extractTextFromPdf(file)
  \/ \E c \in 1..Len(calls) :
       GetDocumentDone(c) \/ GetTextContentDone(c) \/ Reject(c)
  \/ toggleSpeak \/ stopSpeaking \/ nextSentence \/ prevSentence
  \/ \E index \in 0..(Len(sentences) - 1) : \E selectOnly \in BOOLEAN :
       speakAt(index, selectOnly)
  \/ \E checked \in BOOLEAN : setMathMode(checked)
  \/ UtteranceStart \/ UtteranceEnd

Spec == Init /\ [][Next]_vars


(***************************************************************************)
(* Properties of the component.                                            *)
(***************************************************************************)
\* what a call of extractTextFromPdf on file publishes when nothing rejects
extractedText(file) ==
  cleanedPages([p \in 1..Len(file.pages) |-> pageRawLines(file.pages[p])])

\* the step is the last one of call c, which returns without an error
Completes(c) ==
  /\ calls' = RemoveAt(calls, c)
  /\ GetDocumentDone(c) \/ GetTextContentDone(c)

\* C1: an upload cancels no call in flight; every call that runs to its end
\* overwrites the page texts and the sentences with the result of its own
\* file, whether or not a later call has been made, and nothing else changes
\* them: they hold the result of the call that completed last, which can be
\* the one made first.
C1_LastCompletionWins ==
  [][ /\ uploads' > uploads =>
           /\ Len(calls') = Len(calls) + 1
           /\ SubSeq(calls', 1, Len(calls)) = calls
      /\ \A c \in 1..Len(calls) :
           Completes(c) =>
             LET result == extractedText(calls[c].file)
             IN /\ textByPage' = result
                /\ sentences' = buildSentences(result)
      /\ (textByPage' # textByPage \/ sentences' # sentences) =>
           \E c \in 1..Len(calls) : Completes(c) ]_vars

\* b.pdf was uploaded after a.pdf, both calls have returned without an error,
\* and the state holds the result of a.pdf
C1_Witness ==
  /\ uploads = 2 /\ pdfName = "b.pdf" /\ calls = <<>> /\ error = <<>>
  /\ textByPage = extractedText(FileA)
  /\ sentences = buildSentences(extractedText(FileA))
  /\ extractedText(FileA) # extractedText(FileB)

\* C2: when an await of a call rejects, whether before the document is open
\* or while a page is read, the step sets the error message and isLoading to
\* false, and leaves sentences and textByPage as they were.
C2_FailurePublishesNothing ==
  [][ \A c \in 1..Len(calls) :
        Reject(c) =>
          /\ error' = <<ErrorMessage>>
          /\ isLoading' = FALSE
          /\ textByPage' = textByPage
          /\ sentences' = sentences ]_vars

\* a.pdf was opened (its page count is set) and the call failed while its
\* pages were read: the error is shown and nothing of a.pdf is published
C2_Witness ==
  /\ uploads = 1 /\ pdfName = "a.pdf" /\ numPages = 2 /\ calls = <<>>
  /\ error = <<ErrorMessage>> /\ isLoading = FALSE
  /\ textByPage = <<>> /\ sentences = <<>>

\* C10: with mathMode off, the utterance queued for a sentence carries the
\* sentence's text unchanged; a change of mathMode changes neither the
\* sentences nor the page texts.
C10_MathModeOffSpeaksRaw ==
  [][ /\ \A index \in 0..(Len(sentences) - 1) :
           (~mathMode /\ startSpeakingFrom(index)) =>
             /\ utterance' # <<>>
             /\ utterance'[1].text = sentences[index + 1].text
      /\ mathMode' # mathMode =>
           (sentences' = sentences /\ textByPage' = textByPage) ]_vars

\* with mathMode off, a sentence with a superscript is queued as it is stored
C10_Witness ==
  /\ ~mathMode /\ utterance # <<>> /\ currentSentence = 0
  /\ sentences # <<>>
  /\ utterance[1].text = sentences[1].text
  /\ "SUP2" \in {sentences[1].text[k] : k \in 1..Len(sentences[1].text)}
  /\ normalizeForSpeech(sentences[1].text) # sentences[1].text


\* the page texts that a call on one of the files publishes
PublishedTexts == {extractedText(file) : file \in Files}

\* C11: in every state the sentences are those of the page texts shown, and
\* the page texts are the result of one file (or still empty, before the
\* first result).
C11_PublishedTogether ==
  /\ sentences = buildSentences(textByPage)
  /\ textByPage = <<>> \/ textByPage \in PublishedTexts

\* two overlapping calls: the one for b.pdf, made last, has failed, the one
\* for a.pdf has published its two pages
C11_Witness ==
  /\ uploads = 2 /\ pdfName = "b.pdf" /\ calls = <<>>
  /\ error = <<ErrorMessage>>
  /\ Len(textByPage) = 2 /\ textByPage = extractedText(FileA)
  /\ Len(sentences) = 2

\* C16 as stated: while there are sentences, currentSentence is the index of
\* one of them.
C16_CurrentSentenceInRange ==
  sentences # <<>> =>
    (0 <= currentSentence /\ currentSentence < Len(sentences))

\* C17 as stated: while a call of extractTextFromPdf has not returned,
\* isLoading is true.
C17_LoadingWhileInFlight ==
  calls # <<>> => isLoading = TRUE


(***************************************************************************)
(* The functions of the pipeline run on their own: the argument is drawn   *)
(* in the initial state, the results are collected in ret.                 *)
(***************************************************************************)
componentVars == <<pdfName, numPages, textByPage, sentences, currentSentence,
                   mathMode, isLoading, isSpeaking, error, utterance, paused,
                   uploads, calls>>

\* the sequences over A of length at most n
RECURSIVE SeqsUpTo(_, _)
SeqsUpTo(A, n) ==
  IF n = 0 THEN {<<>>}
  ELSE LET S == SeqsUpTo(A, n - 1)
       IN S \cup {Append(s, a) : s \in {x \in S : Len(x) = n - 1}, a \in A}

\* ---- line grouping of one page, one item of the loop at a time ----
MaxItems == 3
\* item texts: blank, plain, and one that the repairs rewrite
ItemStrs == {<<" ">>, <<"x">>, <<"HALF">>}
\* baselines in half units: 0, 3, 3.5, 4 and 6
ItemYs == {0, 6, 7, 8, 12}
Items == [str : ItemStrs, y : ItemYs]

InitGroup ==
  /\ ComponentInit
  /\ arg \in SeqsUpTo(Items, MaxItems)
  /\ ret = <<>>
  /\ loop = [i |-> 1, g |-> GroupInit]

\* one iteration of the loop over the items
GroupNextItem ==
  /\ loop.i <= Len(arg)
  /\ loop' = [i |-> loop.i + 1, g |-> groupItem(loop.g, arg[loop.i])]
  /\ UNCHANGED <<arg, ret>> /\ UNCHANGED componentVars

\* the flush after the loop
GroupEnd ==
  /\ loop.i = Len(arg) + 1
  /\ loop' = [i |-> loop.i + 1, g |-> flush(loop.g)]
  /\ ret' = <<flush(loop.g).lines>>
  /\ UNCHANGED arg /\ UNCHANGED componentVars

NextGroup == GroupNextItem \/ GroupEnd
SpecGroup == InitGroup /\ [][NextGroup]_vars


(***************************************************************************)
(* Properties of the line grouping.                                        *)
(***************************************************************************)
\* the characters of s that are not whitespace
noSpace(s) == SelectSeq(s, LAMBDA ch : ch \notin Spaces)

\* the sequences of ss one after the other
RECURSIVE concat(_)
concat(ss) == IF ss = <<>> THEN <<>> ELSE Head(ss) \o concat(Tail(ss))

itemStrs(items) == [k \in 1..Len(items) |-> items[k].str]

\* The items cut into consecutive groups, a new group at each index of K:
\* per group, the texts joined by single spaces, whitespace collapsed,
\* trimmed and repaired; groups whose text is empty are left out.
groupTexts(items, K) ==
  LET RECURSIVE go(_, _)
      go(i, buff) ==
        LET text == fixInlineMathArtifacts(rawLine(buff))
            done == IF text = <<>> THEN <<>> ELSE <<text>>
        IN IF i > Len(items) THEN done
           ELSE IF i \in K THEN done \o go(i + 1, <<items[i].str>>)
           ELSE go(i + 1, Append(buff, items[i].str))
  IN IF items = <<>> THEN <<>> ELSE go(2, <<items[1].str>>)

\* C3 as stated: at most as many lines as fragments, and the line texts one
\* after the other are the fragment texts one after the other, up to
\* whitespace.
C3_ConcatenationUpToWhitespace ==
  ret # <<>> =>
    /\ Len(ret[1]) <= Len(arg)
    /\ noSpace(concat([k \in 1..Len(ret[1]) |-> ret[1][k].text]))
         = noSpace(concat(itemStrs(arg)))

\* C3, amended: at most as many lines as fragments, and the line texts are,
\* in order, the texts of consecutive groups of fragments that cover the page
\* in order, each group joined by single spaces, whitespace collapsed,
\* trimmed and then repaired by fixInlineMathArtifacts; a group whose text is
\* empty gives no line.
C3_LinesAreRepairedGroups ==
  ret # <<>> =>
    /\ Len(ret[1]) <= Len(arg)
    /\ \E K \in SUBSET (2..Len(arg)) :
         [k \in 1..Len(ret[1]) |-> ret[1][k].text] = groupTexts(arg, K)

\* a page of two lines, the second of which the repairs have rewritten
C3_Witness ==
  /\ ret # <<>> /\ Len(arg) = 3 /\ Len(ret[1]) = 2
  /\ ret[1][1].text = <<"x", " ", "x">>
  /\ ret[1][2].text = <<"1", "/", "2">>
  /\ arg[3].str = <<"HALF">>

\* the index of the item whose Y is the reference of the line of item i: the
\* first item of that line
RECURSIVE referenceOf(_, _)
referenceOf(items, i) ==
  IF i = 1 THEN 1
  ELSE LET r == referenceOf(items, i - 1)
       IN IF abs(items[i].y - items[r].y) > 7 THEN i ELSE r

\* C4: an item starts a new line exactly when its Y differs by more than 3.5
\* (7 half units) from the reference Y, which is the Y of the first item of
\* the current line and stays when an item is appended; so a page of items
\* that are not blank has one line per item that starts one, with that item's
\* Y (items at 0, 3 and 6 give two lines), and an empty page has no line.
C4_NewLineBeyondTolerance ==
  [][ /\ (loop.i <= Len(arg) /\ loop'.i = loop.i + 1) =>
           LET it == arg[loop.i]
               startsLine == loop'.g.buff = <<it.str>>
           IN /\ loop'.g.currentY = <<arg[referenceOf(arg, loop.i)].y>>
              /\ loop.i = 1 => startsLine
              /\ loop.i > 1 =>
                   /\ startsLine <=> abs(it.y - loop.g.currentY[1]) > 7
                   /\ startsLine => loop'.g.currentY = <<it.y>>
                   /\ ~startsLine =>
                        /\ loop'.g.currentY = loop.g.currentY
                        /\ loop'.g.buff = Append(loop.g.buff, it.str)
      /\ (ret = <<>> /\ ret' # <<>>) =>
           /\ arg = <<>> => ret'[1] = <<>>
           /\ (\A k \in 1..Len(arg) : arg[k].str = <<"x">>) =>
                LET starts == {i \in 1..Len(arg) : referenceOf(arg, i) = i}
                IN /\ Len(ret'[1]) = Cardinality(starts)
                   /\ \A k \in 1..Len(ret'[1]) :
                        \E i \in starts :
                          /\ ret'[1][k].y = arg[i].y
                          /\ Cardinality({j \in starts : j <= i}) = k
           /\ ( /\ [k \in 1..Len(arg) |-> arg[k].y] = <<0, 6, 12>>
                /\ \A k \in 1..Len(arg) : arg[k].str = <<"x">> ) =>
                ret'[1] = << [y |-> 0, text |-> <<"x", " ", "x">>],
                             [y |-> 12, text |-> <<"x">>] >> ]_vars

\* items at Y 0, 3 and 6: the first two on one line, the third alone
C4_Witness ==
  /\ ret # <<>>
  /\ [k \in 1..Len(arg) |-> arg[k].y] = <<0, 6, 12>>
  /\ \A k \in 1..Len(arg) : arg[k].str = <<"x">>
  /\ Len(ret[1]) = 2
  /\ ret[1][1].text = <<"x", " ", "x">> /\ ret[1][2].y = 12

\* ---- mergeSuperscriptLines, applied to its own result ----
MaxLines == 3
MergeLines == {<<>>, <<"x">>, <<"x"," ">>, <<")">>, <<"2">>, <<"^","2">>, <<" ","3">>, <<"SUP2">>, <<"SUP1">>, <<"2",".">>}

InitMerge ==
  /\ ComponentInit
  /\ arg \in SeqsUpTo(MergeLines, MaxLines)
  /\ ret = <<>> /\ loop = <<>>

MergeOnce ==
  /\ ret = <<>>
  /\ ret' = <<mergeSuperscriptLines(arg)>>
  /\ UNCHANGED <<arg, loop>> /\ UNCHANGED componentVars

MergeAgain ==
  /\ Len(ret) = 1
  /\ ret' = Append(ret, mergeSuperscriptLines(ret[1]))
  /\ UNCHANGED <<arg, loop>> /\ UNCHANGED componentVars

NextMerge == MergeOnce \/ MergeAgain
SpecMerge == InitMerge /\ [][NextMerge]_vars


\* C5: mergeSuperscriptLines applied to its own result returns that result.
C5_MergeIdempotent ==
  Len(ret) = 2 => ret[2] = ret[1]

\* a list in which a superscript line was merged, merged once more
C5_Witness ==
  /\ Len(ret) = 2 /\ Len(arg) = 3 /\ Len(ret[1]) < Len(arg)
  /\ \E k \in 1..Len(ret[1]) :
       \E h \in 1..Len(ret[1][k]) : ret[1][k][h] \in SupGlyphs
  /\ ret[2] = mergeSuperscriptLines(ret[1])


\* ---- mergeSuperscriptLines, one line of its loop at a time ----
InitMergeLoop ==
  /\ ComponentInit
  /\ arg \in SeqsUpTo(MergeLines, MaxLines)
  /\ ret = <<>>
  /\ loop = [i |-> 1, out |-> <<>>]

\* one iteration of the loop over the lines
MergeNextLine ==
  /\ loop.i <= Len(arg)
  /\ loop' = [i |-> loop.i + 1, out |-> mergeStep(loop.out, arg[loop.i])]
  /\ UNCHANGED <<arg, ret>> /\ UNCHANGED componentVars

\* return out
MergeReturn ==
  /\ loop.i = Len(arg) + 1 /\ ret = <<>>
  /\ ret' = <<loop.out>>
  /\ UNCHANGED <<arg, loop>> /\ UNCHANGED componentVars

NextMergeLoop == MergeNextLine \/ MergeReturn
SpecMergeLoop == InitMergeLoop /\ [][NextMergeLoop]_vars

\* the superscript glyph of an ASCII digit
glyphOfDigit ==
  [d \in Digits |->
     CASE d = "0" -> "SUP0" [] d = "1" -> "SUP1" [] d = "2" -> "SUP2"
       [] d = "3" -> "SUP3" [] d = "4" -> "SUP4" [] d = "5" -> "SUP5"
       [] d = "6" -> "SUP6" [] d = "7" -> "SUP7" [] d = "8" -> "SUP8"
       [] d = "9" -> "SUP9"]

\* the line, trailing whitespace aside, ends in a letter or ")"
endsInLetterOrParen(prev) ==
  \E k \in 1..Len(prev) :
    /\ prev[k] \in Letters \cup {")"}
    /\ \A h \in (k + 1)..Len(prev) : prev[h] \in Spaces

\* One iteration merges the line into the last output line exactly when the
\* trimmed line is a digit, a caret and a digit, or one of the glyphs G, and
\* the last output line ends in a letter or ")"; a digit is appended as its
\* glyph; any other line is appended to the output as it is; no output line
\* but the last is touched.
mergesExactlyWhen(G) ==
  (loop.i <= Len(arg) /\ loop'.i = loop.i + 1) =>
    LET line == arg[loop.i]
        cur == trim(line)
        out == loop.out
        isDigit == Len(cur) = 1 /\ cur[1] \in Digits
        isCaretDigit == Len(cur) = 2 /\ cur[1] = "^" /\ cur[2] \in Digits
        isGlyph == Len(cur) = 1 /\ cur[1] \in G
        attaches == /\ isDigit \/ isCaretDigit \/ isGlyph
                    /\ out # <<>> /\ endsInLetterOrParen(out[Len(out)])
        sup == IF isGlyph THEN cur[1] ELSE glyphOfDigit[cur[Len(cur)]]
    IN IF attaches
       THEN loop'.out = [out EXCEPT ![Len(out)] = Append(@, sup)]
       ELSE loop'.out = Append(out, line)

\* C12 as stated: the glyphs that make a superscript line are all ten
\* superscript digits.
C12_MergesAnySuperscriptGlyph ==
  [][mergesExactlyWhen({"SUP0", "SUP1", "SUP2", "SUP3", "SUP4", "SUP5",
                        "SUP6", "SUP7", "SUP8", "SUP9"})]_vars

\* C12, amended: the glyphs that make a superscript line are the superscript
\* digits two to nine; a line that is superscript zero or one is passed
\* through like any other line.
C12_MergesSuperscriptTwoToNine ==
  [][mergesExactlyWhen({"SUP2", "SUP3", "SUP4", "SUP5", "SUP6", "SUP7",
                        "SUP8", "SUP9"})]_vars

\* after "x", the line "^2" was merged as a glyph and the line of the glyph
\* superscript one was passed through
C12_Witness ==
  /\ loop.i = 4 /\ Len(arg) = 3
  /\ arg = << <<"x">>, <<"^", "2">>, <<"SUP1">> >>
  /\ loop.out = << <<"x", "SUP2">>, <<"SUP1">> >>

\* ---- the chrome filter on the merged lines of a document ----
MaxPages == 6
LineA == <<"a"," ","b">>
LineB == <<"c">>
LineJunk == <<"P","a","g","e"," ","2">>
\* the pages of a document: no line, one line, a line twice, two lines
PageVariants == {<<>>, <<LineA>>, <<LineA, LineA>>, <<LineA, LineB>>,
                 <<LineB>>, <<LineJunk>>}

InitChrome ==
  /\ ComponentInit
  /\ arg \in SeqsUpTo(PageVariants, MaxPages)
  /\ ret = <<>> /\ loop = <<>>

FilterChrome ==
  /\ ret = <<>>
  /\ ret' = <<cleanedPages(arg)>>
  /\ UNCHANGED <<arg, loop>> /\ UNCHANGED componentVars

NextChrome == FilterChrome
SpecChrome == InitChrome /\ [][NextChrome]_vars


(***************************************************************************)
(* Properties of the chrome filter.                                        *)
(***************************************************************************)
\* the lines of a cleaned page text, which joins them by line feeds
linesOfText(text) ==
  LET RECURSIVE go(_, _)
      go(i, cur) ==
        IF i > Len(text) THEN {cur}
        ELSE IF text[i] = "\n" THEN {cur} \cup go(i + 1, <<>>)
        ELSE go(i + 1, Append(cur, text[i]))
  IN IF text = <<>> THEN {} ELSE go(1, <<>>)

\* the pages of the document on which line stands
pagesWith(doc, line) ==
  {p \in 1..Len(doc) : \E k \in 1..Len(doc[p]) : doc[p][k] = line}

allLines(doc) == UNION {{doc[p][k] : k \in 1..Len(doc[p])} : p \in 1..Len(doc)}

\* C6: a line that stands on at least max(2, floor(pageCount * 0.5)) pages is
\* in the cleaned text of no page.
C6_ChromeRemovedEverywhere ==
  ret # <<>> =>
    \A line \in allLines(arg) :
      LET half == Len(arg) \div 2
          threshold == IF half > 2 THEN half ELSE 2
      IN Cardinality(pagesWith(arg, line)) >= threshold =>
           \A p \in 1..Len(arg) : line \notin linesOfText(ret[1][p])

\* six pages: the line on three of them is removed from all, the line on two
\* of them stays
C6_Witness ==
  /\ ret # <<>> /\ Len(arg) = 6
  /\ Cardinality(pagesWith(arg, LineA)) = 3 /\ freq(arg, LineA) = 3
  /\ Cardinality(pagesWith(arg, LineB)) = 2 /\ freq(arg, LineB) = 2
  /\ \A p \in 1..6 : LineA \notin linesOfText(ret[1][p])
  /\ \A p \in pagesWith(arg, LineB) : LineB \in linesOfText(ret[1][p])

\* C7 as stated: a line that stands on one page only and matches no junk
\* pattern is in the cleaned text of that page.
C7_SinglePageLineRetained ==
  ret # <<>> =>
    \A line \in allLines(arg) :
      (Cardinality(pagesWith(arg, line)) = 1 /\ ~isJunk(line)) =>
        \A p \in pagesWith(arg, line) : line \in linesOfText(ret[1][p])

\* ---- buildSentences on page texts ----
MaxTextLen == 4
MaxTextPages == 3
TextChars == {"a", "A", "1", "(", "\"", ".", "!", "?", " ", "\n"}
HelloWorld == <<"H","e","l","l","o"," ","w","o","r","l","d","."," ","T","h","i","s"," ","i","s"," ","T","e","s","t","!">>
PageTexts == {<<>>, <<"A","."," ","B">>, <<"a",".","b">>, <<" ","c","!"," ","1"," ">>}

InitSentences ==
  /\ ComponentInit
  /\ arg \in {<<s>> : s \in SeqsUpTo(TextChars, MaxTextLen) \cup {HelloWorld}}
               \cup SeqsUpTo(PageTexts, MaxTextPages)
  /\ ret = <<>> /\ loop = <<>>

BuildSentences ==
  /\ ret = <<>>
  /\ ret' = <<buildSentences(arg)>>
  /\ UNCHANGED <<arg, loop>> /\ UNCHANGED componentVars

NextSentences == BuildSentences
SpecSentences == InitSentences /\ [][NextSentences]_vars


(***************************************************************************)
(* The repair steps of fixInlineMathArtifacts, each applied to a line and  *)
(* then to its own output.                                                 *)
(***************************************************************************)
\* the steps in the order of the source
RepairSteps == {"dashes", "vulgar", "fracSlash", "fracUnder",
                "fracSpacedUnder", "caretPower", "groupPower", "inverseTrig",
                "minusAfterDigit", "minusAfterLetter", "minusInAbs",
                "minusTerms", "minusBeforeClose"}

\* one fixed = fixed.replace(...) of fixInlineMathArtifacts
repairStep(step, s) ==
  CASE step = "dashes" -> fixDashes(s)
    [] step = "vulgar" -> fixVulgar(s)
    [] step = "fracSlash" -> fixFracSlash(s)
    [] step = "fracUnder" -> fixFracUnder(s)
    [] step = "fracSpacedUnder" -> fixFracSpacedUnder(s)
    [] step = "caretPower" -> fixCaretPower(s)
    [] step = "groupPower" -> fixGroupPower(s)
    [] step = "inverseTrig" -> fixInverseTrig(s)
    [] step = "minusAfterDigit" -> fixMinusAfterDigit(s)
    [] step = "minusAfterLetter" -> fixMinusAfterLetter(s)
    [] step = "minusInAbs" -> fixMinusInAbs(s)
    [] step = "minusTerms" -> fixMinusTerms(s)
    [] step = "minusBeforeClose" -> fixMinusBeforeClose(s)

MaxTokens == 3
\* the pieces that lines are made of
LineTokens == {<<"1">>, <<"x">>, <<" ","1">>, <<"_","1">>, <<" ","_"," ","1">>, <<" ","/"," ","1">>, <<"1","x">>, <<" ","1","x">>, <<"(">>, <<")">>,
               <<"|">>, <<"^","2">>, <<"MINUS">>, <<"HALF">>, <<"s","i","n"," ","SUP1","(">>}
\* lines of four and more pieces
LongLines == {<<"(","x"," ","1",")">>, <<"(","1","x"," ","1",")">>, <<"|","x"," ","1","|">>, <<"(","x",")"," ","2">>, <<"x"," ","1",")"," ","x"," ","1",")">>,
              <<"1"," ","/"," ","2"," ","/"," ","3">>, <<"2","x"," ","5","y"," ","3","z">>}

InitRepair ==
  /\ ComponentInit
  /\ arg \in {concat(ts) : ts \in SeqsUpTo(LineTokens, MaxTokens)}
               \cup LongLines
  /\ ret = <<>> /\ loop = <<>>

RepairOnce(step) ==
  /\ ret = <<>>
  /\ ret' = <<[step |-> step, fixed |-> repairStep(step, arg)]>>
  /\ UNCHANGED <<arg, loop>> /\ UNCHANGED componentVars

RepairAgain ==
  /\ Len(ret) = 1
  /\ ret' = Append(ret, [step |-> ret[1].step,
                          fixed |-> repairStep(ret[1].step, ret[1].fixed)])
  /\ UNCHANGED <<arg, loop>> /\ UNCHANGED componentVars

NextRepair == (\E step \in RepairSteps : RepairOnce(step)) \/ RepairAgain
SpecRepair == InitRepair /\ [][NextRepair]_vars

\* C13 as stated: whatever the step and the line, the step applied to its
\* own output returns that output.
C13_EachStepIdempotent ==
  Len(ret) = 2 => ret[2].fixed = ret[1].fixed


(***************************************************************************)
(* normalizeForSpeech on sentence texts, as startSpeakingFrom calls it     *)
(* with mathMode on.                                                       *)
(***************************************************************************)
MaxWords == 3
\* the pieces that sentence texts are made of
SentenceTokens == {<<"a">>, <<"1">>, <<"(","a",")">>, <<"(","1",")">>, <<"/">>, <<" ">>, <<"=">>, <<"SIGMA">>, <<"INTEGRAL">>, <<"sigma">>}

InitSpeech ==
  /\ ComponentInit
  /\ arg \in {concat(ts) : ts \in SeqsUpTo(SentenceTokens, MaxWords)}
  /\ ret = <<>> /\ loop = <<>>

NormalizeForSpeech ==
  /\ ret = <<>>
  /\ ret' = <<spokenText(arg, TRUE)>>
  /\ UNCHANGED <<arg, loop>> /\ UNCHANGED componentVars

NextSpeech == NormalizeForSpeech
SpecSpeech == InitSpeech /\ [][NextSpeech]_vars

\* the characters of s
charsOf(s) == {s[k] : k \in 1..Len(s)}

\* C14 as stated: a sentence with the sum or the integral sign passes the
\* gate, and no such sign is left in the normalized text.
C14_SumAndIntegralAlwaysSpoken ==
  (ret # <<>> /\ charsOf(arg) \cap {"SIGMA", "INTEGRAL"} # {}) =>
    /\ looksMathy(arg)
    /\ charsOf(ret[1]) \cap {"SIGMA", "INTEGRAL"} = {}

\* the operands of a fraction: single tokens and parenthesized groups
FractionOperands == {<<"a">>, <<"1">>, <<"(","a",")">>, <<"(","1",")">>}

\* C15 as stated: A/B is rendered "(A) over (B)" for single tokens and for
\* parenthesized groups.
C15_FractionAlwaysOver ==
  ret # <<>> =>
    \A A \in FractionOperands, B \in FractionOperands :
      arg = A \o <<"/">> \o B =>
        ret[1] = <<"(">> \o A \o <<")"," ","o","v","e","r"," ","(">> \o B \o <<")">>

\* C15, amended: A/B is rendered "(A) over (B)" when the slash does not
\* stand between two word characters, as when A or B is a parenthesized
\* group; a slash between two word characters, as in "a/1", has become
\* " divided by " in the operator step and the fraction rule finds nothing.
C15_FractionOverUnlessDividedBy ==
  ret # <<>> =>
    \A A \in FractionOperands, B \in FractionOperands :
      arg = A \o <<"/">> \o B =>
        ret[1] = IF A[Len(A)] \in WordChars /\ B[1] \in WordChars
                 THEN A \o <<" ","d","i","v","i","d","e","d"," ","b","y"," ">> \o B
                 ELSE <<"(">> \o A \o <<")"," ","o","v","e","r"," ","(">> \o B \o <<")">>

\* the single tokens a and 1 around a slash, spoken with "divided by"
C15_Witness ==
  /\ ret # <<>> /\ arg = <<"a","/","1">>
  /\ ret[1] = <<"a"," ","d","i","v","i","d","e","d"," ","b","y"," ","1">>


(***************************************************************************)
(* Properties of buildSentences.                                           *)
(***************************************************************************)
\* C8: the page tags of the sentences lie in 1..pageCount and never decrease
\* along the sequence, no sentence text is empty, and the sentences tagged i
\* are those of page i: joined by single spaces they are its cleaned text.
C8_PageTagsMonotone ==
  ret # <<>> =>
    LET s == ret[1]
    IN /\ \A k \in 1..Len(s) : s[k].page \in 1..Len(arg) /\ s[k].text # <<>>
       /\ \A k \in 1..(Len(s) - 1) : s[k].page <= s[k + 1].page
       /\ \A i \in 1..Len(arg) :
            LET ofPage == SelectSeq(s, LAMBDA x : x.page = i)
            IN join([k \in 1..Len(ofPage) |-> ofPage[k].text], <<" ">>)
                 = cleanText(arg[i])

\* three pages, the second without text: two sentences of page 1, then one
\* of page 3
C8_Witness ==
  /\ ret # <<>> /\ Len(arg) = 3 /\ arg[2] = <<>>
  /\ [k \in 1..Len(ret[1]) |-> ret[1][k].page] = <<1, 1, 3>>

\* the places of the cleaned text c where a sentence ends: whitespace after
\* ".", "!" or "?" and before an uppercase letter, a digit, an opening quote
\* or an opening bracket
boundaries(c) ==
  {i \in 2..(Len(c) - 1) :
     /\ c[i] \in Spaces
     /\ c[i - 1] \in {".", "!", "?"}
     /\ c[i + 1] \in Upper \cup Digits \cup {"\"", "'", "(", "["}}

\* the k-th element of the set B of numbers, 0 before the first and last
\* after the last
nthOr(B, k, last) ==
  IF k = 0 THEN 0
  ELSE IF k > Cardinality(B) THEN last
  ELSE CHOOSE b \in B : Cardinality({x \in B : x <= b}) = k

\* C9: the sentences of a single page are the pieces of its cleaned text
\* between the boundaries, all of them and no others, tagged page 1; "Hello
\* world. This is Test!" gives "Hello world." and "This is Test!".
C9_SplitAtBoundaries ==
  (ret # <<>> /\ Len(arg) = 1) =>
    LET c == cleanText(arg[1])
        B == boundaries(c)
        s == ret[1]
    IN /\ c = <<>> => s = <<>>
       /\ c # <<>> =>
            /\ Len(s) = Cardinality(B) + 1
            /\ \A k \in 1..Len(s) :
                 /\ s[k].page = 1
                 /\ s[k].text = SubSeq(c, nthOr(B, k - 1, Len(c) + 1) + 1,
                                       nthOr(B, k, Len(c) + 1) - 1)
       /\ arg[1] = HelloWorld =>
            s = << [text |-> SubSeq(HelloWorld, 1, 12), page |-> 1],
                   [text |-> SubSeq(HelloWorld, 14, 26), page |-> 1] >>

\* the page "Hello world. This is Test!" and its two sentences
C9_Witness ==
  /\ ret # <<>> /\ arg = <<HelloWorld>>
  /\ Len(ret[1]) = 2 /\ Len(HelloWorld) = 26
  /\ ret[1][1].text = SubSeq(HelloWorld, 1, 12)
  /\ ret[1][1].text[12] = "."
  /\ ret[1][2].text = SubSeq(HelloWorld, 14, 26)
  /\ ret[1][2].text[1] = "T"

=============================================================================
